---- MODULE Spec2Model ----
(***************************************************************************)
(* Model of the ICMP pinger of gp.go: the Pinger struct, NewPinger, Run    *)
(* (with listen, the deferred conn.Close and the deferred finish) and      *)
(* GenerateStats.                                                          *)
(*                                                                         *)
(* time.Duration is an int64 of nanoseconds.  The model keeps its          *)
(* two's-complement wrap-around at the reduced width DurationBits, since   *)
(* the model checker's integers are narrower than 64 bits.                 *)
(* float64 values are modelled as exact fractions, plus the IEEE special   *)
(* values NaN, +Inf and -Inf that a division by zero produces.             *)
(***************************************************************************)
EXTENDS Integers, Sequences, FiniteSets, TLC

VARIABLES
    p,            \* the Pinger struct
    pc,           \* "idle" | "running" | "returned" | "panicked"
    conn,         \* the icmp.PacketConn of the current Run: "nil" | "open" | "closed"
    deferred,     \* the current Run's stack of deferred calls
    finishArgs,   \* the Stats handed to OnFinish during the current Run, in order
    connAtFinish, \* what the connection was when OnFinish was invoked
    lastRun,      \* how the last Run ended: "none" | "failed" | "ok"
    runs,         \* number of Run() calls made
    closes,       \* number of close(p.done) executed
    lastStats     \* <<s>>: the Stats of the caller's last GenerateStats(), or <<>>

vars == <<p, pc, conn, deferred, finishArgs, connAtFinish, lastRun, runs,
          closes, lastStats>>

-----------------------------------------------------------------------------
(* Bounds *)

MaxRuns == 3

MaxSent == 4

MaxSamples == 3

DurationBits == 8

\* Values a caller assigns to Pinger.Count (-1 is the unbounded sentinel).
Counts == {-1, 1, 2}

\* RTT samples, in nanoseconds of the reduced width.
Samples == {0, 1, 3, 24, 30}

-----------------------------------------------------------------------------
(* Constants of gp.go *)

timeSliceLen == 8

trackerLen == 8

-----------------------------------------------------------------------------
(* Integer and floating-point arithmetic *)

MinDuration == -(2 ^ (DurationBits - 1))

MaxDuration == (2 ^ (DurationBits - 1)) - 1

Duration == MinDuration .. MaxDuration

\* Two's-complement wrap-around of a signed integer of DurationBits bits.
Wrap(x) == ((x - MinDuration) % (2 ^ DurationBits)) + MinDuration

\* Go's integer division truncates toward zero (b > 0).
TruncDiv(a, b) == IF a >= 0 THEN a \div b ELSE -((-a) \div b)

Abs(x) == IF x < 0 THEN -x ELSE x

RECURSIVE GCD(_, _)
GCD(a, b) == IF b = 0 THEN a ELSE GCD(b, a % b)

\* A float64: a fraction in lowest terms, or a special value.
Finite(n, d) ==
    LET g == GCD(Abs(n), d)
    IN  [kind |-> "finite", num |-> n \div g, den |-> d \div g]

NaN == [kind |-> "NaN", num |-> 0, den |-> 0]

PosInf == [kind |-> "+Inf", num |-> 0, den |-> 0]

NegInf == [kind |-> "-Inf", num |-> 0, den |-> 0]

\* float64(a) / float64(b): IEEE division, a zero divisor included.
FloatDiv(a, b) ==
    IF b # 0 THEN (IF b > 0 THEN Finite(a, b) ELSE Finite(-a, -b))
    ELSE IF a = 0 THEN NaN
    ELSE IF a > 0 THEN PosInf ELSE NegInf

\* f * k for an integer k > 0.
FloatMul(f, k) == IF f.kind = "finite" THEN Finite(f.num * k, f.den) ELSE f

\* floor(sqrt(n)) for n >= 0.
ISqrt(n) == CHOOSE r \in 0 .. n : r * r <= n /\ (r + 1) * (r + 1) > n

\* time.Duration(NaN): the conversion of a float64 that the integer type
\* cannot represent is implementation-dependent; the builds yield the least
\* integer (amd64), zero (arm64) or the greatest integer (riscv64).
NaNToDuration == {MinDuration, 0, MaxDuration}

\* time.Duration(math.Sqrt(float64(x))): the truncated root; the root of a
\* negative number is NaN.
SqrtToDuration(x) == IF x >= 0 THEN {ISqrt(x)} ELSE NaNToDuration

-----------------------------------------------------------------------------
(* GenerateStats *)

\* loss := float64(PacketsSent-PacketsRecieve) / float64(PacketsSent) * 100
Loss_intdiv(sent, recv) ==
    IF sent = 0 THEN NaN ELSE Finite(TruncDiv(sent - recv, sent) * 100, 1)

Loss(sent, recv) == FloatMul(FloatDiv(sent - recv, sent), 100)

\* The loop over p.rtts: min and max by linear scan, total by wrapping sum.
RECURSIVE ScanMin(_, _, _)
ScanMin(rtts, i, min) ==
    IF i > Len(rtts) THEN min
    ELSE ScanMin(rtts, i + 1, IF rtts[i] < min THEN rtts[i] ELSE min)

RECURSIVE ScanMax(_, _, _)
ScanMax(rtts, i, max) ==
    IF i > Len(rtts) THEN max
    ELSE ScanMax(rtts, i + 1, IF rtts[i] > max THEN rtts[i] ELSE max)

RECURSIVE ScanTotal(_, _, _)
ScanTotal(rtts, i, total) ==
    IF i > Len(rtts) THEN total
    ELSE ScanTotal(rtts, i + 1, Wrap(total + rtts[i]))

MinRttOf(rtts) == IF Len(rtts) > 0 THEN ScanMin(rtts, 1, rtts[1]) ELSE 0

MaxRttOf(rtts) == IF Len(rtts) > 0 THEN ScanMax(rtts, 1, rtts[1]) ELSE 0

AvgRttOf(rtts) ==
    IF Len(rtts) > 0 THEN TruncDiv(ScanTotal(rtts, 1, 0), Len(rtts)) ELSE 0

\* sumSquares += (rtt - s.AvgRtt) * (rtt - s.AvgRtt), in wrapping arithmetic.
RECURSIVE SumSquares(_, _, _, _)
SumSquares(rtts, avg, i, acc) ==
    IF i > Len(rtts) THEN acc
    ELSE SumSquares(rtts, avg, i + 1,
                    Wrap(acc + Wrap(Wrap(rtts[i] - avg) * Wrap(rtts[i] - avg))))

\* The values s.StdDevRtt may take.
StdDevRttOf(rtts) ==
    IF Len(rtts) > 0
    THEN SqrtToDuration(TruncDiv(SumSquares(rtts, AvgRttOf(rtts), 1, 0), Len(rtts)))
    ELSE {0}

\* The Stats a call of GenerateStats on engine q may return.
GenerateStats(q) ==
    { [PacketsSent    |-> q.PacketsSent,
       PacketsRecieve |-> q.PacketsRecieve,
       PacketsLoss    |-> Loss(q.PacketsSent, q.PacketsRecieve),
       Rtts           |-> q.rtts,
       MaxRtt         |-> MaxRttOf(q.rtts),
       MinRtt         |-> MinRttOf(q.rtts),
       AvgRtt         |-> AvgRttOf(q.rtts),
       StdDevRtt      |-> sd] : sd \in StdDevRttOf(q.rtts) }

-----------------------------------------------------------------------------
(* NewPinger, Run, finish, listen *)

\* The struct NewPinger returns; fields it does not name are zero.
NewPinger_counted(isV4) ==
    [Count |-> -1, PacketsSent |-> 0, PacketsRecieve |-> 1, OnFinish |-> FALSE,
     Size |-> 0, size |-> timeSliceLen, network |-> "udp", ipv4 |-> isV4,
     done |-> "open", rtts |-> <<>>]

NewPinger(isV4) ==
    [Count |-> -1, PacketsSent |-> 0, PacketsRecieve |-> 0, OnFinish |-> FALSE,
     Size |-> 0, size |-> timeSliceLen, network |-> "udp", ipv4 |-> isV4,
     done |-> "open", rtts |-> <<>>]

\* ipv4Proto / ipv6Proto
ipv4Proto == [ip |-> "ip4:icmp", udp |-> "udp4"]

ipv6Proto == [ip |-> "ip6:ipv6-icmp", udp |-> "udp6"]

\* finish: the sequences of arguments OnFinish may be invoked with.
finish_skip(q) == {<<>>}

finish(q) ==
    IF q.OnFinish THEN { <<s>> : s \in GenerateStats(q) } ELSE {<<>>}

\* listen: err says whether icmp.ListenPacket failed.  close(p.done) of a
\* closed channel panics.
listen(q, netProto, err) ==
    IF err
    THEN [conn |-> "nil", closed |-> 1, panic |-> (q.done = "closed"), done |-> "closed"]
    ELSE [conn |-> "open", closed |-> 0, panic |-> FALSE, done |-> q.done]

\* The calls Run defers, in the order it defers them; they run last first.
RunDefers_swapped == <<"p.finish", "conn.Close">>

RunDefers == <<"conn.Close", "p.finish">>

\* Run(), up to its deferred calls.
RunListen(err) ==
    /\ pc \in {"idle", "returned"}
    /\ runs < MaxRuns
    /\ LET r == listen(p, IF p.ipv4 THEN ipv4Proto[p.network] ELSE ipv6Proto[p.network], err)
       IN  /\ runs' = runs + 1
           /\ closes' = closes + r.closed
           /\ finishArgs' = <<>>
           /\ connAtFinish' = "nil"
           /\ IF r.panic
              THEN /\ pc' = "panicked"
                   /\ UNCHANGED <<p, conn, deferred, lastRun>>
              ELSE /\ p' = [p EXCEPT !.done = r.done]
                   /\ conn' = r.conn
                   /\ IF r.conn = "nil"
                      THEN /\ pc' = "returned"
                           /\ lastRun' = "failed"
                           /\ deferred' = <<>>
                      ELSE /\ pc' = "running"
                           /\ deferred' = RunDefers
                           /\ UNCHANGED lastRun
    /\ UNCHANGED lastStats

\* One deferred call of Run(); Run returns after the last of them.
RunDeferred ==
    /\ pc = "running"
    /\ deferred # <<>>
    /\ LET top == deferred[Len(deferred)]
           rest == SubSeq(deferred, 1, Len(deferred) - 1)
       IN  /\ deferred' = rest
           /\ IF top = "p.finish"
              THEN /\ \E args \in finish(p) :
                         /\ finishArgs' = finishArgs \o args
                         /\ connAtFinish' = IF args # <<>> THEN conn ELSE connAtFinish
                   /\ UNCHANGED conn
              ELSE /\ conn' = "closed"
                   /\ UNCHANGED <<finishArgs, connAtFinish>>
           /\ IF rest = <<>>
              THEN pc' = "returned" /\ lastRun' = "ok"
              ELSE UNCHANGED <<pc, lastRun>>
    /\ UNCHANGED <<p, runs, closes, lastStats>>

\* The caller assigns the exported field Count between runs.
SetCount(c) ==
    /\ pc \in {"idle", "returned"}
    /\ p.Count # c
    /\ p' = [p EXCEPT !.Count = c]
    /\ pc' = "idle"
    /\ UNCHANGED <<conn, deferred, finishArgs, connAtFinish, lastRun, runs,
                   closes, lastStats>>

\* The caller assigns the exported field OnFinish between runs.
SetOnFinish(h) ==
    /\ pc \in {"idle", "returned"}
    /\ p.OnFinish # h
    /\ p' = [p EXCEPT !.OnFinish = h]
    /\ pc' = "idle"
    /\ UNCHANGED <<conn, deferred, finishArgs, connAtFinish, lastRun, runs,
                   closes, lastStats>>

\* The caller calls GenerateStats(), between runs or during one.
Statistics ==
    /\ pc # "panicked"
    /\ \E s \in GenerateStats(p) : lastStats' = <<s>>
    /\ UNCHANGED <<p, pc, conn, deferred, finishArgs, connAtFinish, lastRun,
                   runs, closes>>

Fresh ==
    /\ pc = "idle"
    /\ conn = "nil"
    /\ deferred = <<>>
    /\ finishArgs = <<>>
    /\ connAtFinish = "nil"
    /\ lastRun = "none"
    /\ runs = 0
    /\ closes = 0
    /\ lastStats = <<>>

Init ==
    /\ \E isV4 \in BOOLEAN : p = NewPinger(isV4)
    /\ Fresh

Next ==
    \/ \E err \in BOOLEAN : RunListen(err)
    \/ RunDeferred
    \/ \E c \in Counts : SetCount(c)
    \/ \E h \in BOOLEAN : SetOnFinish(h)
    \/ Statistics

Spec == Init /\ [][Next]_vars

-----------------------------------------------------------------------------
(* GenerateStats as a function of the engine state: the engine starts with  *)
(* any counters and any recorded samples.                                   *)

RECURSIVE SeqsUpTo(_, _)
SeqsUpTo(S, n) ==
    IF n = 0 THEN {<<>>}
    ELSE LET shorter == SeqsUpTo(S, n - 1)
         IN  shorter \cup { Append(s, x) : s \in shorter, x \in S }

InitStats ==
    /\ \E isV4 \in BOOLEAN, sent \in 0 .. MaxSent, recv \in 0 .. MaxSent,
          rtts \in SeqsUpTo(Samples, MaxSamples) :
           p = [NewPinger(isV4) EXCEPT !.PacketsSent = sent,
                                       !.PacketsRecieve = recv,
                                       !.rtts = rtts]
    /\ Fresh

NextStats == Statistics

SpecStats == InitStats /\ [][NextStats]_vars

-----------------------------------------------------------------------------
(* Properties *)

Returned(outcome) == pc = "returned" /\ lastRun = outcome

\* C1: when socket acquisition fails and OnFinish is set, Run() invokes
\* OnFinish exactly once before it returns, with a Stats snapshot whose
\* PacketsSent and PacketsRecieve are both 0.
C1_FailedRunReportsViaOnFinish ==
    (Returned("failed") /\ p.OnFinish) =>
        /\ Len(finishArgs) = 1
        /\ finishArgs[1].PacketsSent = 0
        /\ finishArgs[1].PacketsRecieve = 0

\* C2: when socket acquisition succeeds and OnFinish is set, OnFinish is
\* invoked exactly once before Run() returns (never more than once while it
\* runs), and its argument is the GenerateStats() snapshot of the engine.
C2_OnFinishOnceWithSnapshot ==
    /\ Len(finishArgs) <= 1
    /\ (Returned("ok") /\ p.OnFinish) =>
           /\ Len(finishArgs) = 1
           /\ finishArgs[1] \in GenerateStats(p)

C2_Witness ==
    /\ Returned("ok")
    /\ p.OnFinish
    /\ Len(finishArgs) = 1
    /\ runs >= 2

\* C3: with a bounded Count = N > 0 and a socket that opens, when Run()
\* returns PacketsSent = N and PacketsRecieve = N (every request echoed).
C3_BoundedRunSendsCount ==
    (Returned("ok") /\ p.Count > 0) =>
        /\ p.PacketsSent = p.Count
        /\ p.PacketsRecieve = p.Count

\* C4: for PacketsSent = N > 0 and 0 <= PacketsRecieve = R <= N,
\* GenerateStats() returns PacketsLoss = (N - R) / N * 100 together with
\* PacketsSent = N and PacketsRecieve = R.
C4_LossFormula ==
    (lastStats # <<>> /\ p.PacketsSent > 0 /\ p.PacketsRecieve <= p.PacketsSent) =>
        LET s == lastStats[1]
            N == p.PacketsSent
            R == p.PacketsRecieve
        IN  /\ s.PacketsSent = N
            /\ s.PacketsRecieve = R
            /\ s.PacketsLoss.kind = "finite"
            /\ s.PacketsLoss.den > 0
            /\ s.PacketsLoss.num * N = (N - R) * 100 * s.PacketsLoss.den

C4_Witness ==
    /\ lastStats # <<>>
    /\ p.PacketsSent = 3
    /\ p.PacketsRecieve = 2
    /\ lastStats[1].PacketsLoss = [kind |-> "finite", num |-> 100, den |-> 3]

\* C5: GenerateStats() on an engine with no RTT samples and PacketsSent = 0
\* returns MinRtt = MaxRtt = AvgRtt = StdDevRtt = 0 and PacketsLoss = 0.
C5_EmptyStatsAreZero ==
    (lastStats # <<>> /\ p.PacketsSent = 0 /\ p.rtts = <<>>) =>
        LET s == lastStats[1]
        IN  /\ s.MinRtt = 0
            /\ s.MaxRtt = 0
            /\ s.AvgRtt = 0
            /\ s.StdDevRtt = 0
            /\ s.PacketsLoss = [kind |-> "finite", num |-> 0, den |-> 1]

\* C6: in every reachable state the configured payload size is at least
\* timeSliceLen + trackerLen = 16 bytes.
C6_SizeHoldsTimestampAndTracker == p.size >= timeSliceLen + trackerLen

\* C7: in every state reached through NewPinger, Run() and GenerateStats(),
\* PacketsRecieve <= PacketsSent, in the engine and in every Stats produced.
C7_RecieveAtMostSent ==
    /\ p.PacketsRecieve <= p.PacketsSent
    /\ \A i \in 1 .. Len(lastStats) :
           lastStats[i].PacketsRecieve <= lastStats[i].PacketsSent
    /\ \A i \in 1 .. Len(finishArgs) :
           finishArgs[i].PacketsRecieve <= finishArgs[i].PacketsSent

C7_Witness ==
    /\ Returned("ok")
    /\ closes = 1
    /\ runs >= 2
    /\ lastStats # <<>>
    /\ finishArgs # <<>>

\* C8 as stated: the connection is closed first and OnFinish is invoked
\* afterwards, so the callback never observes an open connection.
C8_CallbackAfterClose == finishArgs # <<>> => connAtFinish = "closed"

\* C8 as amended: OnFinish is invoked while the connection is still open, and
\* the connection is closed afterwards, before Run() returns.
C8_CallbackBeforeClose ==
    /\ finishArgs # <<>> => connAtFinish = "open"
    /\ Returned("ok") => conn = "closed"

C8_Witness ==
    /\ Returned("ok")
    /\ finishArgs # <<>>
    /\ connAtFinish = "open"
    /\ conn = "closed"

\* C9: for every non-empty sequence of samples, MinRtt is the least sample,
\* MaxRtt the greatest, AvgRtt the arithmetic mean and StdDevRtt the root of
\* the mean squared deviation from it (each as the integer Duration holds it),
\* with MinRtt <= AvgRtt <= MaxRtt and 0 <= StdDevRtt <= MaxRtt - MinRtt.
RECURSIVE SumOf(_)
SumOf(s) == IF s = <<>> THEN 0 ELSE s[1] + SumOf(Tail(s))

RECURSIVE SumSqDev(_, _)
SumSqDev(s, m) ==
    IF s = <<>> THEN 0 ELSE (s[1] - m) * (s[1] - m) + SumSqDev(Tail(s), m)

Elems(s) == { s[i] : i \in 1 .. Len(s) }

C9_RttSummary ==
    (lastStats # <<>> /\ p.rtts # <<>>) =>
        LET s == lastStats[1]
            n == Len(p.rtts)
            mean == TruncDiv(SumOf(p.rtts), n)
        IN  /\ s.MinRtt \in Elems(p.rtts)
            /\ \A x \in Elems(p.rtts) : s.MinRtt <= x
            /\ s.MaxRtt \in Elems(p.rtts)
            /\ \A x \in Elems(p.rtts) : x <= s.MaxRtt
            /\ s.AvgRtt = mean
            /\ s.StdDevRtt = ISqrt(SumSqDev(p.rtts, mean) \div n)
            /\ s.MinRtt <= s.AvgRtt
            /\ s.AvgRtt <= s.MaxRtt
            /\ 0 <= s.StdDevRtt
            /\ s.StdDevRtt <= s.MaxRtt - s.MinRtt

\* C10: over any sequence of Run() calls on one Pinger the done channel is
\* closed at most once, and no Run() panics closing a closed channel.
C10_DoneClosedAtMostOnce == closes <= 1 /\ pc # "panicked"

====
